---- MODULE Spec2Model ----
(***************************************************************************)
(* Jobly: the partial-update compiler sqlForPartialUpdate (helpers/sql.js) *)
(* and the Job / Company data-access classes that use it.                  *)
(*                                                                         *)
(* JavaScript strings are modelled as sequences of one-character strings,  *)
(* so that quoting, placeholder numbering and the database's reading of    *)
(* the generated SET clause are computed character by character.           *)
(***************************************************************************)
EXTENDS Integers, Sequences, FiniteSets, TLC

\* ---------------------------------------------------------------- strings
\* String literals of the sources, as character sequences.
s_firstName == <<"f", "i", "r", "s", "t", "N", "a", "m", "e">>
s_age == <<"a", "g", "e">>
s_2 == <<"2">>
s_1 == <<"1">>
s_quoteKey == <<"a", "\"", "b">>
s_commaKey == <<"a", ",", "b">>
s_constructor == <<"c", "o", "n", "s", "t", "r", "u", "c", "t", "o", "r">>
s_first_name == <<"f", "i", "r", "s", "t", "_", "n", "a", "m", "e">>
s_quoteCommaName == <<"c", "\"", ",", " ", "\"", "d">>
s_empty == <<>>
s_functionObject == <<"f", "u", "n", "c", "t", "i", "o", "n", " ", "O", "b", "j", "e", "c", "t", "(", ")", " ", "{", " ", "[", "n", "a", "t", "i", "v", "e", " ", "c", "o", "d", "e", "]", " ", "}">>
s_Aliya == <<"A", "l", "i", "y", "a">>
s_32 == <<"3", "2">>
s_null == <<"n", "u", "l", "l">>
s_title == <<"t", "i", "t", "l", "e">>
s_salary == <<"s", "a", "l", "a", "r", "y">>
s_equity == <<"e", "q", "u", "i", "t", "y">>
s_companyHandle == <<"c", "o", "m", "p", "a", "n", "y", "H", "a", "n", "d", "l", "e">>
s_company_handle == <<"c", "o", "m", "p", "a", "n", "y", "_", "h", "a", "n", "d", "l", "e">>
s_id == <<"i", "d">>
s_handle == <<"h", "a", "n", "d", "l", "e">>
s_name == <<"n", "a", "m", "e">>
s_description == <<"d", "e", "s", "c", "r", "i", "p", "t", "i", "o", "n">>
s_numEmployees == <<"n", "u", "m", "E", "m", "p", "l", "o", "y", "e", "e", "s">>
s_num_employees == <<"n", "u", "m", "_", "e", "m", "p", "l", "o", "y", "e", "e", "s">>
s_logoUrl == <<"l", "o", "g", "o", "U", "r", "l">>
s_logo_url == <<"l", "o", "g", "o", "_", "u", "r", "l">>
s_New == <<"N", "e", "w">>
s_jobs == <<"j", "o", "b", "s">>
s_companies == <<"c", "o", "m", "p", "a", "n", "i", "e", "s">>
s_NoData == <<"N", "o", " ", "d", "a", "t", "a">>
s_NoJob == <<"N", "o", " ", "j", "o", "b", ":", " ">>
s_NoCompany == <<"N", "o", " ", "c", "o", "m", "p", "a", "n", "y", ":", " ">>
s_DuplicateJob == <<"D", "u", "p", "l", "i", "c", "a", "t", "e", " ", "j", "o", "b", ":", " ">>
s_DuplicateCompany == <<"D", "u", "p", "l", "i", "c", "a", "t", "e", " ", "c", "o", "m", "p", "a", "n", "y", ":", " ">>
s_nope == <<"n", "o", "p", "e">>
s_j1 == <<"j", "1">>
s_j2 == <<"j", "2">>
s_c1 == <<"c", "1">>

\* ----------------------------------------------------------------- bounds
\* Largest number of properties a payload handed to sqlForPartialUpdate has.
MaxKeys == 2
\* Largest number of properties of the data object handed to update().
MaxDataKeys == 2

\* ------------------------------------------------------ JavaScript values
\* A JavaScript scalar: its type and the text String(value) gives.
JsNull == [type |-> "null", str |-> s_null]
JsString(s) == [type |-> "string", str |-> s]
JsNumber(s) == [type |-> "number", str |-> s]

Digits == <<"0", "1", "2", "3", "4", "5", "6", "7", "8", "9">>
IsDigit(c) == c \in {"0", "1", "2", "3", "4", "5", "6", "7", "8", "9"}
DigitVal(c) == (CHOOSE i \in 1..10 : Digits[i] = c) - 1

\* String(n) for a non-negative integer n, as `${idx + 1}` formats it.
RECURSIVE NumberToString(_)
NumberToString(n) ==
  IF n < 10 THEN <<Digits[n + 1]>>
  ELSE NumberToString(n \div 10) \o <<Digits[(n % 10) + 1]>>

\* The number a string of decimal digits denotes.
RECURSIVE StringToNumber(_)
StringToNumber(s) ==
  IF Len(s) = 0 THEN 0
  ELSE 10 * StringToNumber(SubSeq(s, 1, Len(s) - 1)) + DigitVal(s[Len(s)])

\* A property key that is a canonical array index ("0", "1", "27", not "01").
IsArrayIndex(k) ==
  /\ Len(k) > 0
  /\ \A i \in 1..Len(k) : IsDigit(k[i])
  /\ (Len(k) > 1 => k[1] # "0")

\* array.join(sep)
RECURSIVE Join(_, _)
Join(parts, sep) ==
  IF Len(parts) = 0 THEN <<>>
  ELSE IF Len(parts) = 1 THEN parts[1]
  ELSE parts[1] \o sep \o Join(Tail(parts), sep)

\* ----------------------------------------------------- JavaScript objects
\* An object is the sequence of its own properties [key, value] in the order
\* they were inserted. The engine enumerates array-index keys first, in
\* ascending numeric order, and then the other string keys in insertion order.
RemoveAt(seq, i) == SubSeq(seq, 1, i - 1) \o SubSeq(seq, i + 1, Len(seq))

RECURSIVE SortByIndex(_)
SortByIndex(props) ==
  IF Len(props) = 0 THEN <<>>
  ELSE LET m == CHOOSE i \in 1..Len(props) :
                  \A j \in 1..Len(props) :
                    StringToNumber(props[i].key) <= StringToNumber(props[j].key)
       IN <<props[m]>> \o SortByIndex(RemoveAt(props, m))

IsIndexProp(p) == IsArrayIndex(p.key)
IsNamedProp(p) == ~IsArrayIndex(p.key)

\* Mutant: every key enumerated in insertion order, array indices too.
OwnProperties_insertionOnly(obj) == obj

OwnProperties(obj) ==
  SortByIndex(SelectSeq(obj, IsIndexProp)) \o SelectSeq(obj, IsNamedProp)

\* Object.keys(obj)
ObjectKeys(obj) ==
  LET props == OwnProperties(obj)
  IN [i \in 1..Len(props) |-> props[i].key]

\* Mutant: the values read in insertion order while the keys are enumerated.
ObjectValues_insertionOrder(obj) == [i \in 1..Len(obj) |-> obj[i].value]

\* Object.values(obj)
ObjectValues(obj) ==
  LET props == OwnProperties(obj)
  IN [i \in 1..Len(props) |-> props[i].value]

HasOwn(obj, k) == \E i \in 1..Len(obj) : obj[i].key = k

\* obj[k] for an own property k
GetOwn(obj, k) == obj[CHOOSE i \in 1..Len(obj) : obj[i].key = k].value

\* What a plain object inherits from Object.prototype, by key, as the text
\* a template literal prints for it.
ObjectPrototype == s_constructor :> s_functionObject

\* ------------------------------------------------------- helpers/sql.js
\* jsToSql[colName] || colName : an own mapping when it is truthy (a
\* non-empty string), else what jsToSql inherits under that key, else the key.
ResolveCol(jsToSql, colName) ==
  IF colName \in DOMAIN jsToSql
  THEN IF jsToSql[colName] # s_empty THEN jsToSql[colName] ELSE colName
  ELSE IF colName \in DOMAIN ObjectPrototype THEN ObjectPrototype[colName]
  ELSE colName

\* `"${jsToSql[colName] || colName}"=$${idx + 1}` , idx counted from 0
ColTerm(jsToSql, colName, idx) ==
  <<"\"">> \o ResolveCol(jsToSql, colName) \o <<"\"", "=", "$">>
           \o NumberToString(idx + 1)

BadRequestError(message) == [error |-> "BadRequestError", message |-> message]
NotFoundError(message) == [error |-> "NotFoundError", message |-> message]

\* Mutant: the empty-payload check is missing.
sqlForPartialUpdate_noCheck(dataToUpdate, jsToSql) ==
  LET keys == ObjectKeys(dataToUpdate)
      cols == [i \in 1..Len(keys) |-> ColTerm(jsToSql, keys[i], i - 1)]
  IN [setCols |-> Join(cols, <<",", " ">>),
      values  |-> ObjectValues(dataToUpdate)]

\* Mutant: the value is written into the clause instead of a placeholder.
sqlForPartialUpdate_inlineValues(dataToUpdate, jsToSql) ==
  LET keys == ObjectKeys(dataToUpdate)
      vals == ObjectValues(dataToUpdate)
  IN IF Len(keys) = 0 THEN BadRequestError(s_NoData)
     ELSE LET cols == [i \in 1..Len(keys) |->
                         <<"\"">> \o ResolveCol(jsToSql, keys[i])
                                  \o <<"\"", "=", "'">> \o vals[i].str \o <<"'">>]
          IN [setCols |-> Join(cols, <<",", " ">>), values |-> vals]

sqlForPartialUpdate(dataToUpdate, jsToSql) ==
  LET keys == ObjectKeys(dataToUpdate)
  IN IF Len(keys) = 0 THEN BadRequestError(s_NoData)
     ELSE LET cols == [i \in 1..Len(keys) |-> ColTerm(jsToSql, keys[i], i - 1)]
          IN [setCols |-> Join(cols, <<",", " ">>),
              values  |-> ObjectValues(dataToUpdate)]

\* ------------------------------------------- the database reads a SET list
\* The lexical rules of the SQL the statements are written in: a quoted
\* identifier runs from a double quote to the next double quote that is not
\* doubled ("" inside stands for one quote character); a parameter is $ and
\* decimal digits; terms are separated by commas; blanks may surround tokens.
RECURSIVE SkipBlanks(_, _)
SkipBlanks(s, i) ==
  IF i <= Len(s) /\ s[i] = " " THEN SkipBlanks(s, i + 1) ELSE i

\* From position i, just after the opening quote: the identifier and the
\* position after its closing quote; ok is FALSE when it never closes.
RECURSIVE ScanQuoted(_, _, _)
ScanQuoted(s, i, acc) ==
  IF i > Len(s) THEN [ok |-> FALSE]
  ELSE IF s[i] = "\""
       THEN IF i + 1 <= Len(s) /\ s[i + 1] = "\""
            THEN ScanQuoted(s, i + 2, Append(acc, "\""))
            ELSE [ok |-> TRUE, ident |-> acc, next |-> i + 1]
       ELSE ScanQuoted(s, i + 1, Append(acc, s[i]))

RECURSIVE ScanDigits(_, _)
ScanDigits(s, i) ==
  IF i <= Len(s) /\ IsDigit(s[i]) THEN ScanDigits(s, i + 1) ELSE i

\* "$n" at position i: the number n and the position after it.
ScanParam(s, i) ==
  IF i <= Len(s) /\ s[i] = "$"
  THEN LET e == ScanDigits(s, i + 1)
       IN IF e > i + 1
          THEN [ok |-> TRUE, param |-> StringToNumber(SubSeq(s, i + 1, e - 1)),
                next |-> e]
          ELSE [ok |-> FALSE]
  ELSE [ok |-> FALSE]

\* The list "col" = $n , "col" = $n ... from position i on, as the sequence
\* of its terms [col, param]; ok is FALSE on a syntax error.
RECURSIVE ParseSetList(_, _, _)
ParseSetList(s, i, acc) ==
  LET a == SkipBlanks(s, i)
  IN IF ~(a <= Len(s) /\ s[a] = "\"") THEN [ok |-> FALSE]
     ELSE LET q == ScanQuoted(s, a + 1, <<>>)
          IN IF ~q.ok THEN [ok |-> FALSE]
             ELSE IF Len(q.ident) = 0 THEN [ok |-> FALSE]
             ELSE LET e == SkipBlanks(s, q.next)
                  IN IF ~(e <= Len(s) /\ s[e] = "=") THEN [ok |-> FALSE]
                     ELSE LET p == ScanParam(s, SkipBlanks(s, e + 1))
                          IN IF ~p.ok THEN [ok |-> FALSE]
                             ELSE LET terms == Append(acc, [col |-> q.ident, param |-> p.param])
                                      z == SkipBlanks(s, p.next)
                                  IN IF z > Len(s) THEN [ok |-> TRUE, terms |-> terms]
                                     ELSE IF s[z] = "," THEN ParseSetList(s, z + 1, terms)
                                     ELSE [ok |-> FALSE]

ParseSetClause(s) == ParseSetList(s, 1, <<>>)

\* ------------------------------------------------- callers of the helper
VARIABLES payload, table, result, memo

sqlVars == <<payload, table, result, memo>>

\* The two tables, the model call in progress, the suite that is running and
\* the create() calls that run at the same time.
VARIABLES jobs, companies, call, suite, racers

dbVars == <<jobs, companies, call, suite, racers>>

\* Keys, values and mappings the callers of sqlForPartialUpdate are drawn from.
PayloadKeys ==
  {s_firstName, s_age, s_2, s_1, s_quoteKey, s_commaKey, s_constructor}
PayloadValues == {JsString(s_Aliya), JsNull}
TableKeys == {s_firstName, s_age}
ColumnNames == {s_first_name, s_quoteCommaName, s_empty}
\* The smaller alphabets of the runs that compare two calls.
RepeatKeys == {s_firstName, s_age}
RepeatValues == {JsNumber(s_32), JsNull}
RepeatTableKeys == {s_firstName}

Pending == [pending |-> TRUE]
NoCall == [none |-> TRUE]

Threw(r) == "error" \in DOMAIN r
Returned(r) == "setCols" \in DOMAIN r

SqlInit ==
  /\ payload = <<>>
  /\ table = <<>>
  /\ result = Pending
  /\ memo = NoCall

\* The caller writes one more property into the object it will pass.
SetProperty(keys, values) ==
  \E k \in keys, v \in values :
    /\ result = Pending
    /\ Len(payload) < MaxKeys
    /\ ~HasOwn(payload, k)
    /\ payload' = Append(payload, [key |-> k, value |-> v])
    /\ UNCHANGED <<table, result, memo, dbVars>>

\* The caller writes one more mapping into the translation table.
SetMapping(keys) ==
  \E k \in keys, c \in ColumnNames :
    /\ result = Pending
    /\ k \notin DOMAIN table
    /\ table' = (table @@ (k :> c))
    /\ UNCHANGED <<payload, result, memo, dbVars>>

\* Mutant: the keys are visited in an order the engine does not fix.
CallSql_anyOrder ==
  /\ result = Pending
  /\ \E first \in 1..(Len(payload) + 1) :
       result' = sqlForPartialUpdate(
                   IF first > Len(payload) THEN payload
                   ELSE <<payload[first]>> \o RemoveAt(payload, first), table)
  /\ UNCHANGED <<payload, table, memo, dbVars>>

\* const result = sqlForPartialUpdate(dataToUpdate, jsToSql)
CallSql ==
  /\ result = Pending
  /\ result' = sqlForPartialUpdate(payload, table)
  /\ UNCHANGED <<payload, table, memo, dbVars>>

\* The caller is done with the result and starts building the next call.
NextCall ==
  /\ result # Pending
  /\ payload' = <<>>
  /\ table' = <<>>
  /\ result' = Pending
  /\ UNCHANGED <<memo, dbVars>>

\* As NextCall, and an observer keeps the finished call (its inputs and its
\* result) to compare later calls with.
NextCallRemember ==
  /\ result # Pending
  /\ memo' = [payload |-> payload, table |-> table, result |-> result]
  /\ payload' = <<>>
  /\ table' = <<>>
  /\ result' = Pending
  /\ UNCHANGED dbVars

SqlNext ==
  \/ SetProperty(PayloadKeys, PayloadValues)
  \/ SetMapping(TableKeys)
  \/ CallSql
  \/ NextCall

RepeatNext ==
  \/ SetProperty(RepeatKeys, RepeatValues)
  \/ SetMapping(RepeatTableKeys)
  \/ CallSql
  \/ NextCall
  \/ NextCallRemember


\* ------------------------------------------------------------- database
\* A table is the set of its rows; a row maps each column name to a value.
JobColumns == {s_id, s_title, s_salary, s_equity, s_company_handle}
CompanyColumns ==
  {s_handle, s_name, s_description, s_num_employees, s_logo_url}

\* RETURNING id, title, salary, equity AS "equity",
\*           company_handle AS "companyHandle"
JobReturning ==
  (s_id :> s_id) @@ (s_title :> s_title) @@ (s_salary :> s_salary)
    @@ (s_equity :> s_equity) @@ (s_companyHandle :> s_company_handle)

\* RETURNING handle, name, description, num_employees AS "numEmployees",
\*           logo_url AS "logoUrl"
CompanyReturning ==
  (s_handle :> s_handle) @@ (s_name :> s_name)
    @@ (s_description :> s_description)
    @@ (s_numEmployees :> s_num_employees) @@ (s_logoUrl :> s_logo_url)

\* The object the driver builds for a returned row: key (the AS name) to value.
ReturnedRow(row, returning) ==
  [k \in DOMAIN returning |-> row[returning[k]]]

DatabaseError(detail) == [error |-> "DatabaseError", detail |-> detail]

\* WHERE col = $n : NULL equals nothing.
RowMatches(row, col, value) == value # JsNull /\ row[col] = value

\* db.query of  UPDATE <table> SET <set> WHERE <whereCol> = <whereParam>
\* RETURNING <returning>  with the parameters params: the table afterwards
\* and the returned rows, or the error the database raises. The statement is
\* rejected when the SET list does not parse, names a column the table does
\* not have or names one twice, or when the parameters referenced are not
\* exactly $1..$n for the n parameters supplied.
ExecUpdate(rows, columns, stmt, params) ==
  LET set == ParseSetClause(stmt.set)
      w == ScanParam(stmt.whereParam, 1)
  IN IF ~set.ok \/ ~w.ok THEN DatabaseError("syntax error")
     ELSE IF w.next # Len(stmt.whereParam) + 1 THEN DatabaseError("syntax error")
     ELSE LET n == Len(set.terms)
              used == {set.terms[i].param : i \in 1..n} \cup {w.param}
          IN IF \E i \in 1..n : set.terms[i].col \notin columns
             THEN DatabaseError("column does not exist")
             ELSE IF \E i, j \in 1..n : i # j /\ set.terms[i].col = set.terms[j].col
             THEN DatabaseError("multiple assignments to same column")
             ELSE IF used # 1..Len(params)
             THEN DatabaseError("parameters do not match the statement")
             ELSE LET Assigned(c) == \E i \in 1..n : set.terms[i].col = c
                      ValueFor(c) ==
                        params[set.terms[CHOOSE i \in 1..n : set.terms[i].col = c].param]
                      Updated(r) ==
                        [c \in columns |-> IF Assigned(c) THEN ValueFor(c) ELSE r[c]]
                      hit == {r \in rows : RowMatches(r, stmt.whereCol, params[w.param])}
                  IN [rows |-> (rows \ hit) \cup {Updated(r) : r \in hit},
                      returned |-> {ReturnedRow(Updated(r), stmt.returning) : r \in hit}]

\* db.query of  SELECT <pk> FROM <table> WHERE <pk> = $1
ExecSelect(rows, whereCol, params) ==
  {r \in rows : RowMatches(r, whereCol, params[1])}

\* ------------------------------------------------- models/job.js, company.js
\* The translation tables update() passes to sqlForPartialUpdate.
\* Mutant: the companyHandle mapping is missing.
JobJsToSql_noHandle == (s_equity :> s_equity)

JobJsToSql == (s_equity :> s_equity) @@ (s_companyHandle :> s_company_handle)
CompanyJsToSql ==
  (s_numEmployees :> s_num_employees) @@ (s_logoUrl :> s_logo_url)

\* INSERT INTO jobs (id, title, salary, equity, company_handle)
\* VALUES ($1, $2, $3, $4, $5) with [id, title, salary, equity, companyHandle]
JobInsertColumns == <<s_id, s_title, s_salary, s_equity, s_company_handle>>
JobInsertParams(data) ==
  <<data[s_id], data[s_title], data[s_salary], data[s_equity], data[s_companyHandle]>>

\* INSERT INTO companies (handle, name, description, num_employees, logo_url)
\* VALUES ($1, ..., $5) with [handle, name, description, numEmployees, logoUrl]
CompanyInsertColumns ==
  <<s_handle, s_name, s_description, s_num_employees, s_logo_url>>
CompanyInsertParams(data) ==
  <<data[s_handle], data[s_name], data[s_description], data[s_numEmployees],
    data[s_logoUrl]>>

\* Mutant: the placeholder of the key is "$" + values.length.
VarIdx_lastOfSet(values) == <<"$">> \o NumberToString(Len(values))

\* "$" + (values.length + 1)
VarIdx(values) == <<"$">> \o NumberToString(Len(values) + 1)

\* What one call of a model method leaves behind: the table afterwards, what
\* the caller gets (a thrown error or the returned value), and the statements
\* sent to the database with their parameters, in order.
Outcome(rows, outcome, sent) == [rows |-> rows, outcome |-> outcome, sent |-> sent]

\* Mutant: the row is looked up before the data is compiled.
Update_lookupFirst(rows, columns, tableName, pk, jsToSql, returning, noMsg, key, data) ==
  LET lookup == [verb |-> "SELECT", table |-> tableName, whereCol |-> pk,
                 params |-> <<key>>]
  IN IF ExecSelect(rows, pk, <<key>>) = {}
     THEN {Outcome(rows, NotFoundError(noMsg \o key.str), <<lookup>>)}
     ELSE {Outcome(rows, sqlForPartialUpdate(data, jsToSql), <<lookup>>)}

\* Mutant: the check for an empty result is missing.
Update_noRowCheck(rows, columns, tableName, pk, jsToSql, returning, noMsg, key, data) ==
  LET c == sqlForPartialUpdate(data, jsToSql)
  IN IF Threw(c) THEN {Outcome(rows, c, <<>>)}
     ELSE LET stmt == [verb |-> "UPDATE", table |-> tableName, set |-> c.setCols,
                       whereCol |-> pk, whereParam |-> VarIdx(c.values),
                       returning |-> returning, params |-> c.values \o <<key>>]
              r == ExecUpdate(rows, columns, stmt, stmt.params)
          IN IF Threw(r) THEN {Outcome(rows, r, <<stmt>>)}
             ELSE IF r.returned = {}
             THEN {Outcome(r.rows, [returned |-> "undefined"], <<stmt>>)}
             ELSE {Outcome(r.rows, [returned |-> job], <<stmt>>) : job \in r.returned}

\* static async update(id, data) of Job, update(handle, data) of Company:
\* the two differ in the table, the key column, the translation table, the
\* RETURNING list and the message only. The set of the possible outcomes:
\* one, unless the statement returns several rows (rows[0] is then whichever
\* the database lists first).
Update(rows, columns, tableName, pk, jsToSql, returning, noMsg, key, data) ==
  LET c == sqlForPartialUpdate(data, jsToSql)
  IN IF Threw(c) THEN {Outcome(rows, c, <<>>)}
     ELSE LET stmt == [verb |-> "UPDATE", table |-> tableName, set |-> c.setCols,
                       whereCol |-> pk, whereParam |-> VarIdx(c.values),
                       returning |-> returning, params |-> c.values \o <<key>>]
              r == ExecUpdate(rows, columns, stmt, stmt.params)
          IN IF Threw(r) THEN {Outcome(rows, r, <<stmt>>)}
             ELSE IF r.returned = {}
             THEN {Outcome(r.rows, NotFoundError(noMsg \o key.str), <<stmt>>)}
             ELSE {Outcome(r.rows, [returned |-> job], <<stmt>>) : job \in r.returned}

\* db.query of  INSERT INTO <table> (<columns>) VALUES ($1, ...) RETURNING ...
\* with the row the parameters give: the results the database can give. The
\* sources do not say whether the table declares its key unique, so when a
\* row with that key is already stored the INSERT is either rejected or
\* stores a second row.
ExecInsert(rows, pk, row) ==
  LET stored == [rows |-> rows \cup {row}, returned |-> {row}]
  IN IF \E r \in rows : RowMatches(r, pk, row[pk])
     THEN {DatabaseError("duplicate key value"), stored}
     ELSE {stored}

\* The row INSERT INTO <table> (<columns>) VALUES ($1, ..., $n) writes for
\* the parameter list params: the i-th column gets the i-th parameter.
InsertRow(columns, params) ==
  [c \in {columns[i] : i \in 1..Len(columns)} |->
     params[CHOOSE i \in 1..Len(columns) : columns[i] = c]]

\* The first half of create(): the duplicate check finds a row.
DuplicateFound(rows, pk, row) == ExecSelect(rows, pk, <<row[pk]>>) # {}

\* The second half of create(): the INSERT and the return of rows[0].
CreateInsert(rows, tableName, pk, returning, row) ==
  LET insert == [verb |-> "INSERT", table |-> tableName, returning |-> returning,
                 params |-> row]
  IN {IF Threw(r) THEN Outcome(rows, r, <<insert>>)
      ELSE Outcome(r.rows, [returned |-> ReturnedRow(row, returning)], <<insert>>)
        : r \in ExecInsert(rows, pk, row)}

\* Mutant: the duplicate check is missing.
Create_noDuplicateCheck(rows, tableName, pk, returning, dupMsg, row) ==
  CHOOSE o \in CreateInsert(rows, tableName, pk, returning, row) :
    \A other \in CreateInsert(rows, tableName, pk, returning, row) :
      Threw(other.outcome) => Threw(o.outcome)

\* static async create(data) of Job and of Company, run without another
\* call in between: the duplicate check, then the INSERT ... RETURNING. row
\* is the row the INSERT writes.
Create(rows, tableName, pk, returning, dupMsg, row) ==
  LET check == [verb |-> "SELECT", table |-> tableName, whereCol |-> pk,
                params |-> <<row[pk]>>]
  IN IF DuplicateFound(rows, pk, row)
     THEN Outcome(rows, BadRequestError(dupMsg \o row[pk].str), <<check>>)
     ELSE LET o == CHOOSE o \in CreateInsert(rows, tableName, pk, returning, row) : TRUE
          IN Outcome(o.rows, o.outcome, <<check>> \o o.sent)

\* db.query of  DELETE FROM <table> WHERE <pk> = $1 RETURNING <pk> : the
\* table afterwards and the returned rows.
ExecDelete(rows, whereCol, params) ==
  LET hit == {r \in rows : RowMatches(r, whereCol, params[1])}
  IN [rows |-> rows \ hit, returned |-> {(whereCol :> r[whereCol]) : r \in hit}]

\* static async get(id) of Job, get(handle) of Company: the SELECT, the
\* check of rows[0], the return of it.
Get(rows, tableName, pk, returning, noMsg, key) ==
  LET select == [verb |-> "SELECT", table |-> tableName, whereCol |-> pk,
                 returning |-> returning, params |-> <<key>>]
      found == ExecSelect(rows, pk, <<key>>)
  IN IF found = {}
     THEN {Outcome(rows, NotFoundError(noMsg \o key.str), <<select>>)}
     ELSE {Outcome(rows, [returned |-> ReturnedRow(r, returning)], <<select>>)
             : r \in found}

\* Mutant: the check for an empty result is missing.
Remove_noRowCheck(rows, tableName, pk, noMsg, key) ==
  LET delete == [verb |-> "DELETE", table |-> tableName, whereCol |-> pk,
                 params |-> <<key>>]
  IN Outcome(ExecDelete(rows, pk, <<key>>).rows, [returned |-> "undefined"],
             <<delete>>)

\* static async remove(id) of Job, remove(handle) of Company: the DELETE ...
\* RETURNING, the check of rows[0]; returns undefined.
Remove(rows, tableName, pk, noMsg, key) ==
  LET delete == [verb |-> "DELETE", table |-> tableName, whereCol |-> pk,
                 params |-> <<key>>]
      r == ExecDelete(rows, pk, <<key>>)
  IN IF r.returned = {}
     THEN Outcome(r.rows, NotFoundError(noMsg \o key.str), <<delete>>)
     ELSE Outcome(r.rows, [returned |-> "undefined"], <<delete>>)

\* ------------------------------------------------- findAll() of models/job.js
s_FROM == <<"F", "R", "O", "M">>
s_WHERE == <<"W", "H", "E", "R", "E">>
s_AND == <<"A", "N", "D">>
s_ORDER == <<"O", "R", "D", "E", "R">>
s_BY == <<"B", "Y">>
s_ILIKE == <<"I", "L", "I", "K", "E">>
s_greater == <<">">>
s_greaterEqual == <<">", "=">>
s_minSalary == <<"m", "i", "n", "S", "a", "l", "a", "r", "y">>
s_hasEquity == <<"h", "a", "s", "E", "q", "u", "i", "t", "y">>
s_True == <<"T", "r", "u", "e">>
s_true == <<"t", "r", "u", "e">>
s_false == <<"f", "a", "l", "s", "e">>
s_undefined == <<"u", "n", "d", "e", "f", "i", "n", "e", "d">>

JsUndefined == [type |-> "undefined", str |-> s_undefined]
JsTrue == [type |-> "boolean", str |-> s_true]
JsFalse == [type |-> "boolean", str |-> s_false]

\* `%${x}%`
PercentTemplate(text) == <<"%">> \o text \o <<"%">>

\* `<column> <operator> $${values.length}`
FilterCondition(column, operator, values) ==
  column \o <<" ">> \o operator \o <<" ", "$">> \o NumberToString(Len(values))

\* The text of the query from FROM on, the conditions and the values that
\* findAll(filters) builds. The text before FROM is the fixed SELECT list.
FindAllQuery(arg) ==
  LET filters == IF arg = JsUndefined THEN <<>> ELSE arg
      Field(k) == IF k \in DOMAIN filters THEN filters[k] ELSE JsUndefined
      title == Field(s_title)
      minSalary == Field(s_minSalary)
      hasEquity == Field(s_hasEquity)
      query0 == s_FROM \o <<" ">> \o s_jobs
      values1 == IF title # JsUndefined
                 THEN <<JsString(PercentTemplate(title.str))>> ELSE <<>>
      sql1 == IF title # JsUndefined
              THEN <<FilterCondition(s_title, s_ILIKE, values1)>> ELSE <<>>
      values2 == IF hasEquity # JsFalse
                 THEN Append(values1, JsString(PercentTemplate(s_True)))
                 ELSE values1
      sql2 == IF hasEquity # JsFalse
              THEN Append(sql1, FilterCondition(s_equity, s_greater, values2))
              ELSE sql1
      values3 == IF minSalary # JsUndefined
                 THEN Append(values2, JsString(PercentTemplate(minSalary.str)))
                 ELSE values2
      sql3 == IF minSalary # JsUndefined
              THEN Append(sql2, FilterCondition(s_salary, s_greaterEqual, values3))
              ELSE sql2
      query1 == IF Len(sql3) > 0
                THEN query0 \o s_WHERE \o Join(sql3, <<" ">> \o s_AND \o <<" ">>)
                ELSE query0
      query2 == query1 \o s_ORDER \o <<" ">> \o s_BY \o <<" ">> \o s_title
  IN [text |-> query2, sqlToInsert |-> sql3, values |-> values3]

\* The words of a statement: the maximal runs of characters between blanks.
RECURSIVE SplitWords(_, _, _, _)
SplitWords(s, i, word, acc) ==
  IF i > Len(s) THEN IF Len(word) > 0 THEN Append(acc, word) ELSE acc
  ELSE IF s[i] = " "
  THEN SplitWords(s, i + 1, <<>>, IF Len(word) > 0 THEN Append(acc, word) ELSE acc)
  ELSE SplitWords(s, i + 1, Append(word, s[i]), acc)

SqlKeywords == {s_FROM, s_WHERE, s_AND, s_ORDER, s_BY, s_ILIKE}
SqlOperators == {s_ILIKE, s_greater, s_greaterEqual}

\* An unquoted identifier: not a keyword, no operator or parameter character.
IsIdentifier(w) ==
  /\ Len(w) > 0
  /\ w \notin SqlKeywords
  /\ ~IsDigit(w[1])
  /\ \A i \in 1..Len(w) : w[i] \notin {"$", ">", "<", "=", "%", "\"", ","}

\* A word that is one parameter $n.
IsParameter(w) ==
  LET p == ScanParam(w, 1) IN p.ok /\ p.next = Len(w) + 1

\* <column> <operator> $n  AND ...  from word i on: the conditions and the
\* position of the word after them.
RECURSIVE ParseConditions(_, _, _)
ParseConditions(words, i, acc) ==
  IF i + 2 > Len(words) THEN [ok |-> FALSE]
  ELSE IF ~(/\ IsIdentifier(words[i])
            /\ words[i + 1] \in SqlOperators
            /\ IsParameter(words[i + 2]))
  THEN [ok |-> FALSE]
  ELSE LET cond == [col |-> words[i], op |-> words[i + 1],
                    param |-> ScanParam(words[i + 2], 1).param]
       IN IF i + 3 <= Len(words) /\ words[i + 3] = s_AND
          THEN ParseConditions(words, i + 4, Append(acc, cond))
          ELSE [ok |-> TRUE, conds |-> Append(acc, cond), next |-> i + 3]

\* FROM <table> [WHERE <conditions>] ORDER BY <column> : the parts of the
\* statement; ok is FALSE on a syntax error.
ParseSelect(text) ==
  LET words == SplitWords(text, 1, <<>>, <<>>)
      n == Len(words)
      OrderBy(i, conds) ==
        IF /\ n = i + 2
           /\ words[i] = s_ORDER
           /\ words[i + 1] = s_BY
           /\ IsIdentifier(words[i + 2])
        THEN [ok |-> TRUE, table |-> words[2], conds |-> conds,
              orderBy |-> words[i + 2]]
        ELSE [ok |-> FALSE]
  IN IF ~(n >= 3 /\ words[1] = s_FROM /\ IsIdentifier(words[2])) THEN [ok |-> FALSE]
     ELSE IF words[3] = s_WHERE
     THEN LET c == ParseConditions(words, 4, <<>>)
          IN IF c.ok THEN OrderBy(c.next, c.conds) ELSE [ok |-> FALSE]
     ELSE OrderBy(3, <<>>)

UpperCase == <<"A", "B", "C", "D", "E", "F", "G", "H", "I", "J", "K", "L", "M",
               "N", "O", "P", "Q", "R", "S", "T", "U", "V", "W", "X", "Y", "Z">>
LowerCase == <<"a", "b", "c", "d", "e", "f", "g", "h", "i", "j", "k", "l", "m",
               "n", "o", "p", "q", "r", "s", "t", "u", "v", "w", "x", "y", "z">>

ToLower(s) ==
  [i \in 1..Len(s) |->
     IF \E k \in 1..Len(UpperCase) : UpperCase[k] = s[i]
     THEN LowerCase[CHOOSE k \in 1..Len(UpperCase) : UpperCase[k] = s[i]]
     ELSE s[i]]

\* value ILIKE '%<part>%' : part occurs in value, letter case ignored.
\* Other patterns are compared as a whole.
ILike(value, pattern) ==
  LET v == ToLower(value)
      p == ToLower(pattern)
  IN IF Len(p) >= 2 /\ p[1] = "%" /\ p[Len(p)] = "%"
     THEN LET part == SubSeq(p, 2, Len(p) - 1)
          IN \E i \in 1..(Len(v) + 1) :
               /\ i + Len(part) - 1 <= Len(v)
               /\ SubSeq(v, i, i + Len(part) - 1) = part
     ELSE v = p

\* Text that the database reads as a number.
IsNumericText(s) == Len(s) > 0 /\ \A i \in 1..Len(s) : IsDigit(s[i])

\* One condition on one row; NULL satisfies nothing.
ConditionHolds(row, cond, params) ==
  LET value == row[cond.col]
      param == params[cond.param]
  IN /\ value # JsNull
     /\ IF cond.op = s_ILIKE THEN ILike(value.str, param.str)
        ELSE /\ IsNumericText(value.str)
             /\ IF cond.op = s_greater
                THEN StringToNumber(value.str) > StringToNumber(param.str)
                ELSE StringToNumber(value.str) >= StringToNumber(param.str)

\* db.query of the SELECT of findAll with the parameters params: the rows
\* returned, or the error the database raises.
ExecSelectWhere(rows, tables, columns, returning, text, params) ==
  LET q == ParseSelect(text)
  IN IF ~q.ok THEN DatabaseError("syntax error")
     ELSE IF q.table \notin tables THEN DatabaseError("relation does not exist")
     ELSE LET n == Len(q.conds)
          IN IF \/ q.orderBy \notin columns
                \/ \E i \in 1..n : q.conds[i].col \notin columns
             THEN DatabaseError("column does not exist")
             ELSE IF {q.conds[i].param : i \in 1..n} # 1..Len(params)
             THEN DatabaseError("parameters do not match the statement")
             ELSE IF \E i \in 1..n :
                       /\ q.conds[i].op # s_ILIKE
                       /\ ~IsNumericText(params[q.conds[i].param].str)
             THEN DatabaseError("invalid input syntax for a number")
             ELSE [returned |->
                     {ReturnedRow(r, returning) :
                        r \in {x \in rows :
                                 \A i \in 1..n : ConditionHolds(x, q.conds[i], params)}}]

\* static async findAll(filters = {}) of Job: builds the query, sends it,
\* returns the rows.
FindAll(rows, returning, arg) ==
  LET q == FindAllQuery(arg)
      select == [verb |-> "SELECT", text |-> q.text, conds |-> q.sqlToInsert,
                 params |-> q.values]
  IN Outcome(rows,
             ExecSelectWhere(rows, {s_jobs}, JobColumns, returning, q.text, q.values),
             <<select>>)

\* ------------------------------------------------ callers of the models

\* The values the callers write, the keys of the rows they create, and the
\* keys they ask for.
DbValues == {JsString(s_New), JsNull}
JobIds == {JsString(s_j1), JsString(s_j2)}
CompanyHandles == {JsString(s_c1)}
\* A key no row is ever created with.
Nope == JsString(s_nope)
JobFields == {s_title, s_salary, s_equity, s_companyHandle}
CompanyFields == {s_name, s_description, s_numEmployees, s_logoUrl}

\* The data objects of at most MaxDataKeys properties over the given fields,
\* in every insertion order.
DataObjects(fields) ==
  UNION {{d \in [1..n -> [key : fields, value : DbValues]] :
            \A i, j \in 1..n : i # j => d[i].key # d[j].key} : n \in 0..MaxDataKeys}

JobDataObjects == DataObjects(JobFields)
CompanyDataObjects == DataObjects(CompanyFields)

Idle == [idle |-> TRUE]

\* The callers whose create() calls overlap in time, and a caller that is
\* not in a call.
Callers == {"first", "second"}
Waiting == [pc |-> "waiting"]
NoRacers == [c \in Callers |-> Waiting]

\* Each test suite drives one module: sql.test.js the helper, job.test.js the
\* Job class, company.test.js the Company class.
DbInit ==
  /\ jobs = {}
  /\ companies = {}
  /\ call = Idle
  /\ suite \in {"job", "company"}
  /\ racers = NoRacers

\* await Job.create({ id, title, salary, equity, companyHandle })
JobCreate ==
  \E id \in JobIds, fields \in [JobFields -> DbValues] :
    /\ suite = "job"
    /\ call = Idle
    /\ LET data == (s_id :> id) @@ fields
           row == InsertRow(JobInsertColumns, JobInsertParams(data))
           o == Create(jobs, s_jobs, s_id, JobReturning, s_DuplicateJob, row)
       IN /\ jobs' = o.rows
          /\ call' = [op |-> "Job.create", key |-> id, data |-> data,
                      before |-> jobs, outcome |-> o.outcome, sent |-> o.sent]
    /\ UNCHANGED <<companies, suite, racers, sqlVars>>

\* await Job.update(id, data)
JobUpdate ==
  \E id \in JobIds, data \in JobDataObjects :
    /\ suite = "job"
    /\ call = Idle
    /\ \E o \in Update(jobs, JobColumns, s_jobs, s_id, JobJsToSql, JobReturning,
                       s_NoJob, id, data) :
         /\ jobs' = o.rows
         /\ call' = [op |-> "Job.update", key |-> id, data |-> data,
                     before |-> jobs, outcome |-> o.outcome, sent |-> o.sent]
    /\ UNCHANGED <<companies, suite, racers, sqlVars>>

\* await Company.create({ handle, name, description, numEmployees, logoUrl })
CompanyCreate ==
  \E handle \in CompanyHandles, fields \in [CompanyFields -> DbValues] :
    /\ suite = "company"
    /\ call = Idle
    /\ LET data == (s_handle :> handle) @@ fields
           row == InsertRow(CompanyInsertColumns, CompanyInsertParams(data))
           o == Create(companies, s_companies, s_handle, CompanyReturning,
                       s_DuplicateCompany, row)
       IN /\ companies' = o.rows
          /\ call' = [op |-> "Company.create", key |-> handle, data |-> data,
                      before |-> companies, outcome |-> o.outcome, sent |-> o.sent]
    /\ UNCHANGED <<jobs, suite, racers, sqlVars>>

\* await Company.update(handle, data)
CompanyUpdate ==
  \E handle \in CompanyHandles \cup {Nope}, data \in CompanyDataObjects :
    /\ suite = "company"
    /\ call = Idle
    /\ \E o \in Update(companies, CompanyColumns, s_companies, s_handle,
                       CompanyJsToSql, CompanyReturning, s_NoCompany, handle, data) :
         /\ companies' = o.rows
         /\ call' = [op |-> "Company.update", key |-> handle, data |-> data,
                     before |-> companies, outcome |-> o.outcome, sent |-> o.sent]
    /\ UNCHANGED <<jobs, suite, racers, sqlVars>>

\* await Job.get(id)
JobGet ==
  \E id \in JobIds \cup {Nope} :
    /\ suite = "job"
    /\ call = Idle
    /\ \E o \in Get(jobs, s_jobs, s_id, JobReturning, s_NoJob, id) :
         /\ jobs' = o.rows
         /\ call' = [op |-> "Job.get", key |-> id, data |-> <<>>,
                     before |-> jobs, outcome |-> o.outcome, sent |-> o.sent]
    /\ UNCHANGED <<companies, suite, racers, sqlVars>>

\* await Job.remove(id)
JobRemove ==
  \E id \in JobIds \cup {Nope} :
    /\ suite = "job"
    /\ call = Idle
    /\ LET o == Remove(jobs, s_jobs, s_id, s_NoJob, id)
       IN /\ jobs' = o.rows
          /\ call' = [op |-> "Job.remove", key |-> id, data |-> <<>>,
                      before |-> jobs, outcome |-> o.outcome, sent |-> o.sent]
    /\ UNCHANGED <<companies, suite, racers, sqlVars>>

\* The arguments of findAll: none, or a filters object with any of title,
\* minSalary and hasEquity.
FilterValues(k) ==
  IF k = s_title THEN {JsString(s_New)}
  ELSE IF k = s_minSalary THEN {JsNumber(s_32)}
  ELSE {JsTrue, JsFalse}

FindAllArguments ==
  {JsUndefined} \cup
  UNION {{f \in [S -> {JsString(s_New), JsNumber(s_32), JsTrue, JsFalse}] :
            \A k \in S : f[k] \in FilterValues(k)}
           : S \in SUBSET {s_title, s_minSalary, s_hasEquity}}

\* await Job.findAll() / Job.findAll(filters)
JobFindAll ==
  \E arg \in FindAllArguments :
    /\ suite = "job"
    /\ call = Idle
    /\ LET o == FindAll(jobs, JobReturning, arg)
       IN /\ jobs' = o.rows
          /\ call' = [op |-> "Job.findAll", key |-> Nope, data |-> arg,
                      before |-> jobs, outcome |-> o.outcome, sent |-> o.sent]
    /\ UNCHANGED <<companies, suite, racers, sqlVars>>

\* await Company.get(handle)
CompanyGet ==
  \E handle \in CompanyHandles \cup {Nope} :
    /\ suite = "company"
    /\ call = Idle
    /\ \E o \in Get(companies, s_companies, s_handle, CompanyReturning,
                    s_NoCompany, handle) :
         /\ companies' = o.rows
         /\ call' = [op |-> "Company.get", key |-> handle, data |-> <<>>,
                     before |-> companies, outcome |-> o.outcome, sent |-> o.sent]
    /\ UNCHANGED <<jobs, suite, racers, sqlVars>>

\* await Company.remove(handle)
CompanyRemove ==
  \E handle \in CompanyHandles \cup {Nope} :
    /\ suite = "company"
    /\ call = Idle
    /\ LET o == Remove(companies, s_companies, s_handle, s_NoCompany, handle)
       IN /\ companies' = o.rows
          /\ call' = [op |-> "Company.remove", key |-> handle, data |-> <<>>,
                      before |-> companies, outcome |-> o.outcome, sent |-> o.sent]
    /\ UNCHANGED <<jobs, suite, racers, sqlVars>>

\* The caller takes the outcome; the next call can start.
Settle ==
  /\ call # Idle
  /\ call' = Idle
  /\ UNCHANGED <<jobs, companies, suite, racers, sqlVars>>

DbNext ==
  \/ JobCreate
  \/ JobUpdate
  \/ CompanyCreate
  \/ CompanyUpdate
  \/ JobGet
  \/ JobRemove
  \/ JobFindAll
  \/ CompanyGet
  \/ CompanyRemove
  \/ Settle

vars == <<sqlVars, dbVars>>

\* While one suite runs, the state of the others stays as it was set up.
SqlSuiteInit ==
  /\ SqlInit
  /\ jobs = {}
  /\ companies = {}
  /\ call = Idle
  /\ suite = "sql"
  /\ racers = NoRacers

Init == SqlInit /\ DbInit
Next == DbNext

Spec == Init /\ [][Next]_vars
SqlSpec == SqlSuiteInit /\ [][SqlNext]_vars
RepeatSpec == SqlSuiteInit /\ [][RepeatNext]_vars

\* ---------------------------------------- create() calls that overlap in time
\* Each await of create() is one step: other calls run between the steps.
\* A caller calls Job.create(data).
CreateCall(c) ==
  \E id \in JobIds, title \in DbValues :
    /\ suite = "race"
    /\ racers[c] = Waiting
    /\ LET data == (s_id :> id) @@ (s_title :> title)
                     @@ [f \in JobFields \ {s_title} |-> JsNull]
       IN racers' = [racers EXCEPT ![c] =
            [pc |-> "duplicateCheck", data |-> data,
             row |-> InsertRow(JobInsertColumns, JobInsertParams(data))]]
    /\ UNCHANGED <<jobs, companies, call, suite, sqlVars>>

\* const duplicateCheck = await db.query(SELECT ...); the throw if it found
\* a row.
CreateDuplicateCheck(c) ==
  /\ suite = "race"
  /\ racers[c].pc = "duplicateCheck"
  /\ racers' = [racers EXCEPT ![c] =
       IF DuplicateFound(jobs, s_id, racers[c].row)
       THEN [pc |-> "done", data |-> racers[c].data, row |-> racers[c].row,
             outcome |-> BadRequestError(s_DuplicateJob \o racers[c].row[s_id].str)]
       ELSE [pc |-> "insert", data |-> racers[c].data, row |-> racers[c].row]]
  /\ UNCHANGED <<jobs, companies, call, suite, sqlVars>>

\* const result = await db.query(INSERT ...); return result.rows[0]
CreateInsertReturn(c) ==
  /\ suite = "race"
  /\ racers[c].pc = "insert"
  /\ \E o \in CreateInsert(jobs, s_jobs, s_id, JobReturning, racers[c].row) :
       /\ jobs' = o.rows
       /\ racers' = [racers EXCEPT ![c] =
            [pc |-> "done", data |-> racers[c].data, row |-> racers[c].row,
             outcome |-> o.outcome]]
  /\ UNCHANGED <<companies, call, suite, sqlVars>>

\* The caller takes the outcome of its call.
CreateSettle(c) ==
  /\ suite = "race"
  /\ racers[c].pc = "done"
  /\ racers' = [racers EXCEPT ![c] = Waiting]
  /\ UNCHANGED <<jobs, companies, call, suite, sqlVars>>

RaceNext ==
  \E c \in Callers :
    \/ CreateCall(c)
    \/ CreateDuplicateCheck(c)
    \/ CreateInsertReturn(c)
    \/ CreateSettle(c)

RaceInit ==
  /\ SqlInit
  /\ jobs = {}
  /\ companies = {}
  /\ call = Idle
  /\ suite = "race"
  /\ racers = NoRacers

RaceSpec == RaceInit /\ [][RaceNext]_vars

\* ------------------------------------------- claims on sqlForPartialUpdate
\* The i-th term a column name and a position give: "<column>"=$<position>.
QuotedTerm(column, position) ==
  <<"\"">> \o column \o <<"\"", "=", "$">> \o NumberToString(position)

ClauseOf(columns) ==
  Join([i \in 1..Len(columns) |-> QuotedTerm(columns[i], i)], <<",", " ">>)

\* C1: for a non-empty payload whose keys are k1..kn in the order the helper
\* iterates them, values has length n and its i-th element is payload[ki]
\* (null included), and setCols has exactly n terms, the i-th being the term
\* of ki with placeholder $i.
C1_ValuesFollowKeys ==
  Returned(result) =>
    LET keys == ObjectKeys(payload)
        n == Len(keys)
    IN /\ n = Len(payload)
       /\ Len(result.values) = n
       /\ \A i \in 1..n : result.values[i] = GetOwn(payload, keys[i])
       /\ result.setCols = ClauseOf([i \in 1..n |-> ResolveCol(table, keys[i])])

C1_Witness ==
  /\ Returned(result)
  /\ Len(payload) = 2
  /\ payload[1].key = s_firstName /\ payload[1].value = JsNull
  /\ payload[2].key = s_1 /\ payload[2].value = JsString(s_Aliya)

\* C2: the column of the term of key k is table[k] whenever k is present in
\* the translation table and k itself whenever it is absent.
C2_MappedOrVerbatim ==
  Returned(result) =>
    LET keys == ObjectKeys(payload)
    IN result.setCols =
         ClauseOf([i \in 1..Len(keys) |->
                     IF keys[i] \in DOMAIN table THEN table[keys[i]] ELSE keys[i]])

\* C3: a call with a payload of zero keys fails with BadRequestError whatever
\* the translation table is, and returns no setCols and no values.
C3_EmptyPayloadThrows ==
  (result # Pending /\ Len(payload) = 0) =>
    /\ result = BadRequestError(s_NoData)
    /\ "setCols" \notin DOMAIN result
    /\ "values" \notin DOMAIN result

C3_Witness ==
  /\ Threw(result)
  /\ Len(payload) = 0
  /\ DOMAIN table = TableKeys

\* C4: setCols is the same whatever the values of the payload are: any
\* payload with the same keys in the same order and the same table compiles
\* to the identical clause.
C4_ClauseIgnoresValues ==
  Returned(result) =>
    \A vs \in [1..Len(payload) -> PayloadValues] :
      sqlForPartialUpdate(
        [i \in 1..Len(payload) |-> [key |-> payload[i].key, value |-> vs[i]]],
        table).setCols = result.setCols

C4_Witness ==
  /\ Returned(result)
  /\ Len(payload) = 2
  /\ payload[1].value = JsString(s_Aliya)
  /\ payload[2].value = JsNull

\* C5 as stated: the i-th term of setCols and the i-th element of values
\* belong to the i-th key inserted, array-index keys such as "2" and "1"
\* included.
C5_InsertionOrder ==
  Returned(result) =>
    /\ result.values = [i \in 1..Len(payload) |-> payload[i].value]
    /\ result.setCols =
         ClauseOf([i \in 1..Len(payload) |-> ResolveCol(table, payload[i].key)])

\* Whether the property inserted at position a is visited before the one
\* inserted at position b.
C5_Before(obj, a, b) ==
  IF IsArrayIndex(obj[a].key) /\ IsArrayIndex(obj[b].key)
  THEN StringToNumber(obj[a].key) < StringToNumber(obj[b].key)
  ELSE IF IsArrayIndex(obj[a].key) THEN TRUE
  ELSE IF IsArrayIndex(obj[b].key) THEN FALSE
  ELSE a < b

\* C5 amended: the keys are processed with the array-index keys first, in
\* ascending numeric order, and the other keys after them in insertion order
\* (so a payload without array-index keys is processed in insertion order).
C5_IndexKeysFirst ==
  Returned(result) =>
    LET n == Len(payload)
        order == CHOOSE p \in [1..n -> 1..n] :
                   /\ \A i, j \in 1..n : i # j => p[i] # p[j]
                   /\ \A i, j \in 1..n : i < j => C5_Before(payload, p[i], p[j])
    IN /\ result.values = [i \in 1..n |-> payload[order[i]].value]
       /\ result.setCols =
            ClauseOf([i \in 1..n |-> ResolveCol(table, payload[order[i]].key)])
       /\ ((\A i \in 1..n : ~IsArrayIndex(payload[i].key))
             => order = [i \in 1..n |-> i])

C5_Witness ==
  /\ Returned(result)
  /\ Len(payload) = 2
  /\ payload[1].key = s_age
  /\ payload[2].key = s_2

\* C6: setCols reads, under the quoting rules of SQL, as a comma-separated
\* list of exactly one "<column>"=$i term per payload key, each column a
\* single quoted identifier equal to the resolved name, for names that
\* contain the double quote or the comma too.
C6_QuotedIdentifiers ==
  Returned(result) =>
    LET keys == ObjectKeys(payload)
        parsed == ParseSetClause(result.setCols)
    IN /\ parsed.ok
       /\ Len(parsed.terms) = Len(keys)
       /\ \A i \in 1..Len(keys) :
            /\ parsed.terms[i].col = ResolveCol(table, keys[i])
            /\ parsed.terms[i].param = i

IsUpdate(c) == c # Idle /\ c.op \in {"Job.update", "Company.update"}

\* Whether the table had a row with the key of the call when it began.
KeyExisted(c) ==
  \E r \in c.before :
    r[IF c.op = "Job.update" THEN s_id ELSE s_handle] = c.key

TableOf(c) == IF c.op = "Job.update" THEN jobs ELSE companies

\* C8: Job.update and Company.update with an empty data object fail with
\* BadRequestError for every id or handle, whether a row with that key exists
\* or not, with no statement sent to the database and the tables unchanged.
C8_EmptyDataBadRequest ==
  (IsUpdate(call) /\ Len(call.data) = 0) =>
    /\ call.outcome = BadRequestError(s_NoData)
    /\ call.sent = <<>>
    /\ TableOf(call) = call.before

C8_Witness ==
  /\ IsUpdate(call)
  /\ Len(call.data) = 0
  /\ KeyExisted(call)
  /\ Threw(call.outcome)

\* C9: Job.update with non-empty data and an id no row has fails with
\* NotFoundError and leaves every row of the table unchanged; Company.update
\* with a handle no row has does the same.
C9_MissingKeyNotFound ==
  (IsUpdate(call) /\ Len(call.data) > 0 /\ ~KeyExisted(call)) =>
    /\ Threw(call.outcome)
    /\ call.outcome.error = "NotFoundError"
    /\ TableOf(call) = call.before

C9_Witness ==
  /\ call # Idle
  /\ call.op = "Company.update"
  /\ Len(call.data) = 2
  /\ ~KeyExisted(call)
  /\ call.before # {}
  /\ Threw(call.outcome)

\* The column that stores a field of a job.
C10_Column(field) == IF field = s_companyHandle THEN s_company_handle ELSE field

IsCreate(c) == c # Idle /\ c.op \in {"Job.create", "Company.create"}

\* The key column of the table a call works on, and the table now.
KeyColumn(c) ==
  IF c.op \in {"Job.create", "Job.update", "Job.get", "Job.remove", "Job.findAll"}
  THEN s_id ELSE s_handle

TableNow(c) == IF KeyColumn(c) = s_id THEN jobs ELSE companies

\* The column that stores a field of a company.
C11_Column(field) ==
  IF field = s_companyHandle THEN s_company_handle
  ELSE IF field = s_numEmployees THEN s_num_employees
  ELSE IF field = s_logoUrl THEN s_logo_url
  ELSE field

C14_KeyPlaceholderFollowsSet ==
  (IsUpdate(call) /\ Len(call.data) > 0) =>
    LET n == Len(call.data)
        keys == ObjectKeys(call.data)
    IN /\ Len(call.sent) = 1
       /\ LET stmt == call.sent[1]
              set == ParseSetClause(stmt.set)
          IN /\ stmt.verb = "UPDATE"
             /\ stmt.whereCol = KeyColumn(call)
             /\ stmt.whereParam = <<"$">> \o NumberToString(n + 1)
             /\ Len(stmt.params) = n + 1
             /\ stmt.params[n + 1] = call.key
             /\ \A i \in 1..n : stmt.params[i] = GetOwn(call.data, keys[i])
             /\ set.ok
             /\ Len(set.terms) = n
             /\ \A i \in 1..n : set.terms[i].param = i

C14_Witness ==
  /\ call # Idle
  /\ call.op = "Company.update"
  /\ Len(call.data) = 2
  /\ KeyExisted(call)
  /\ "returned" \in DOMAIN call.outcome
  /\ call.sent[1].whereParam = <<"$", "3">>

\* ------------------------------------------------- claims on remove(), get()
HasKey(rows, pk, key) == \E r \in rows : r[pk] = key

\* What C13 asks of one step: the state before it and the state after it.
C13_Step ==
  /\ (call = Idle /\ call' # Idle) => call'.before = jobs \/ call'.before = companies
  /\ (call = Idle /\ call' # Idle /\ call'.op = "Job.remove") =>
       /\ call'.before = jobs
       /\ IF HasKey(jobs, s_id, call'.key)
          THEN /\ \E gone \in jobs :
                    gone[s_id] = call'.key /\ jobs' = jobs \ {gone}
               /\ ~HasKey(jobs', s_id, call'.key)
               /\ call'.outcome = [returned |-> "undefined"]
          ELSE /\ jobs' = jobs
               /\ call'.outcome = NotFoundError(s_NoJob \o call'.key.str)
  /\ (call = Idle /\ call' # Idle /\ call'.op = "Job.get") =>
       /\ jobs' = jobs
       /\ IF HasKey(jobs, s_id, call'.key)
          THEN /\ "returned" \in DOMAIN call'.outcome
               /\ call'.outcome.returned[s_id] = call'.key
          ELSE call'.outcome = NotFoundError(s_NoJob \o call'.key.str)
  /\ \A id \in JobIds \cup {Nope} :
       (~HasKey(jobs, s_id, id) /\ HasKey(jobs', s_id, id)) =>
         /\ call' # Idle
         /\ call'.op = "Job.create"
         /\ call'.key = id

\* C13: Job.remove(id) on an id that has a row deletes exactly that row;
\* from then on the id has no row until Job.create stores one with that id,
\* and while an id has no row Job.get(id) and Job.remove(id) fail with
\* NotFoundError and leave the table unchanged.
C13_RemovedUntilCreated == [][C13_Step]_vars

C13_Witness ==
  /\ call # Idle
  /\ call.op = "Job.remove"
  /\ Threw(call.outcome)
  /\ call.key \in JobIds
  /\ Cardinality(jobs) = 1
  /\ jobs = call.before

\* ------------------------------------------------- claims on findAll()
\* The filter a condition of the query belongs to.
C12_FilterOf(cond) ==
  LET column == SplitWords(cond, 1, <<>>, <<>>)[1]
  IN IF column = s_title THEN s_title
     ELSE IF column = s_salary THEN s_minSalary
     ELSE s_hasEquity

\* The filters the caller supplied.
C12_Supplied(arg) == IF arg = JsUndefined THEN {} ELSE DOMAIN arg

\* C12: Job.findAll with no argument or with an empty filters object builds
\* a query with no condition and returns every job of the table, and in every
\* call each condition of the query belongs to a filter the caller supplied.
C12_NoFilterReturnsAll ==
  (call # Idle /\ call.op = "Job.findAll") =>
    LET conds == call.sent[1].conds
    IN /\ \A i \in 1..Len(conds) : C12_FilterOf(conds[i]) \in C12_Supplied(call.data)
       /\ C12_Supplied(call.data) = {} =>
            /\ conds = <<>>
            /\ "returned" \in DOMAIN call.outcome
            /\ call.outcome.returned = {ReturnedRow(r, JobReturning) : r \in call.before}

\* ---------------------------------------- claims on overlapping create() calls
\* Two callers are inside create() with the same id at the same time.
C15_Overlap(c1, c2) ==
  /\ c1 # c2
  /\ racers[c1] # Waiting
  /\ racers[c2] # Waiting
  /\ racers[c1].row[s_id] = racers[c2].row[s_id]

C15_Inserted(c) ==
  racers[c].pc = "done" /\ "returned" \in DOMAIN racers[c].outcome

\* C15: when two Job.create calls with the same id overlap, with the
\* duplicate check and the INSERT of each as separate steps, the two are
\* never both past the duplicate check on the way to the INSERT, at most one
\* of them inserts, and one that finishes without inserting has failed with
\* BadRequestError.
C15_OneCreateWins ==
  \A c1, c2 \in Callers :
    C15_Overlap(c1, c2) =>
      /\ ~(racers[c1].pc = "insert" /\ racers[c2].pc = "insert")
      /\ ~(C15_Inserted(c1) /\ C15_Inserted(c2))
      /\ (racers[c1].pc = "done" /\ ~C15_Inserted(c1)) =>
           racers[c1].outcome.error = "BadRequestError"

====
